---- MODULE Spec2Model ----
(***************************************************************************)
(* Lost-and-found reporting service (main.py): the submit_item pipeline    *)
(* (as_form validation, image upload, auto_tag_item, INSERT, redirect) and *)
(* the two read routes, view_items and view_item_detail, over one items    *)
(* table.  Several requests are in flight at once; each handler is a       *)
(* linear sequence that yields only at its calls to the outside (image     *)
(* host, classifier, database).                                            *)
(*                                                                         *)
(* A text value is a sequence of one-character strings, so that lower(),   *)
(* len(), substring search and ILIKE are computed and not assumed.  Python *)
(* None / SQL NULL is the value None.                                      *)
(***************************************************************************)
EXTENDS Integers, Sequences, FiniteSets, TLC

None == <<"None">>

Rep(c, n) == [i \in 1..n |-> c]

UpperToLower ==
  ("A" :> "a") @@ ("B" :> "b") @@ ("C" :> "c") @@ ("D" :> "d") @@ ("E" :> "e") @@ ("F" :> "f") @@ ("G" :> "g") @@ ("H" :> "h") @@ ("I" :> "i") @@ ("J" :> "j") @@ ("K" :> "k") @@ ("L" :> "l") @@ ("M" :> "m") @@ ("N" :> "n") @@ ("O" :> "o") @@ ("P" :> "p") @@ ("Q" :> "q") @@ ("R" :> "r") @@ ("S" :> "s") @@ ("T" :> "t") @@ ("U" :> "u") @@ ("V" :> "v") @@ ("W" :> "w") @@ ("X" :> "x") @@ ("Y" :> "y") @@ ("Z" :> "z")

\* str.lower(), and the case folding ILIKE applies to both operands
Lower(s) == [i \in 1..Len(s) |-> IF s[i] \in DOMAIN UpperToLower THEN UpperToLower[s[i]] ELSE s[i]]

\* sub in s : s contains sub as a contiguous substring
Contains(s, sub) == \E k \in 0..(Len(s) - Len(sub)) : SubSeq(s, k + 1, k + Len(sub)) = sub

\* PostgreSQL LIKE: % matches any run of characters, _ any one character,
\* backslash makes the next pattern character literal.
RECURSIVE LikeFrom(_, _, _, _)
LikeFrom(p, i, t, j) ==
  IF i > Len(p) THEN j > Len(t)
  ELSE IF p[i] = "%" THEN (i = Len(p)) \/ (\E k \in j..(Len(t) + 1) : LikeFrom(p, i + 1, t, k))
  ELSE IF j > Len(t) THEN FALSE
  ELSE IF p[i] = "_" THEN LikeFrom(p, i + 1, t, j + 1)
  ELSE IF p[i] = "\\" /\ i < Len(p) THEN p[i + 1] = t[j] /\ LikeFrom(p, i + 2, t, j + 1)
  ELSE p[i] = t[j] /\ LikeFrom(p, i + 1, t, j + 1)

\* text ILIKE pattern
ILike(text, pattern) == LikeFrom(Lower(pattern), 1, Lower(text), 1)

(***************************************************************************)
(* Layer 1: ItemCreate                                                     *)
(***************************************************************************)
MinItemName == 2
MaxItemName == 100
MaxDescription == 500
MinLocation == 2

Lost == <<"l", "o", "s", "t">>
Found == <<"f", "o", "u", "n", "d">>

ItemTypes == {Lost, Found}

\* what FastAPI hands to as_form: a required Form(...) field that is absent
\* is refused by the framework before as_form runs
FormComplete(f) ==
  /\ f.item_type # None
  /\ f.item_name # None
  /\ f.location # None
  /\ f.contact_info # None

\* the field constraints of ItemCreate, checked by cls(...) inside as_form
ItemCreateValid(f) ==
  /\ f.item_type \in ItemTypes
  /\ Len(f.item_name) >= MinItemName
  /\ Len(f.item_name) <= MaxItemName
  /\ (f.description = None \/ Len(f.description) <= MaxDescription)
  /\ Len(f.location) >= MinLocation

SeeOther == 303
NotFound == 404
UnprocessableEntity == 422
InternalServerError == 500
OK == 200

\* The answer to a submission as_form does not accept: a missing field is the
\* framework's request validation error; a constraint violation is a pydantic
\* ValidationError raised inside the dependency, which no handler catches.
as_form(f) ==
  IF ~FormComplete(f) THEN UnprocessableEntity
  ELSE IF ~ItemCreateValid(f) THEN InternalServerError
  ELSE OK

(***************************************************************************)
(* Layer 2: the items table                                                *)
(***************************************************************************)
TableColumns ==
  <<"id", "item_type", "item_name", "description", "location", "contact_info",
    "image_path", "tag", "created_at">>

VarcharItemType == 20
VarcharItemName == 100
VarcharLocation == 255
VarcharContactInfo == 100
VarcharTag == 50

\* Assignment of a text value to a VARCHAR(n) column: a longer value is an
\* error unless every excess character is a space, and then it is cut to n.
VarcharFits(v, n) ==
  v = None \/ Len(v) <= n \/ \A i \in (n + 1)..Len(v) : v[i] = " "

VarcharStore(v, n) ==
  IF v = None \/ Len(v) <= n THEN v ELSE SubSeq(v, 1, n)

\* NOT NULL columns
NotNullOk(item_type, item_name, location, contact_info) ==
  item_type # None /\ item_name # None /\ location # None /\ contact_info # None

\* zip(columns, row) made a dict: a later duplicate key wins
DictZip(columns, row) ==
  LET n == IF Len(columns) < Len(row) THEN Len(columns) ELSE Len(row)
      last(k) == CHOOSE i \in 1..n : columns[i] = k /\ \A j \in (i + 1)..n : columns[j] # k
  IN [k \in {columns[i] : i \in 1..n} |-> row[last(k)]]

(***************************************************************************)
(* Layer 4: auto_tag_item                                                  *)
(***************************************************************************)
labels ==
  << <<"e", "l", "e", "c", "t", "r", "o", "n", "i", "c", "s">>,
     <<"c", "l", "o", "t", "h", "i", "n", "g">>,
     <<"a", "c", "c", "e", "s", "s", "o", "r", "i", "e", "s">>,
     <<"d", "o", "c", "u", "m", "e", "n", "t", "s">>,
     <<"b", "o", "o", "k", "s">>,
     <<"s", "p", "o", "r", "t", "s", "_", "e", "q", "u", "i", "p", "m", "e", "n", "t">>,
     <<"t", "o", "y", "s">>,
     <<"k", "e", "y", "s">>,
     <<"t", "o", "o", "l", "s">>,
     <<"w", "a", "l", "l", "e", "t", "s", "_", "a", "n", "d", "_", "p", "u", "r", "s", "e", "s">>,
     <<"b", "a", "g", "s", "_", "a", "n", "d", "_", "b", "a", "c", "k", "p", "a", "c", "k", "s">>,
     <<"j", "e", "w", "e", "l", "r", "y">>,
     <<"w", "a", "t", "c", "h", "e", "s">>,
     <<"g", "l", "a", "s", "s", "e", "s", "_", "a", "n", "d", "_", "s", "u", "n", "g", "l", "a", "s", "s", "e", "s">>,
     <<"u", "m", "b", "r", "e", "l", "l", "a", "s">>,
     <<"c", "o", "s", "m", "e", "t", "i", "c", "s", "_", "a", "n", "d", "_", "m", "a", "k", "e", "u", "p">>,
     <<"i", "d", "_", "c", "a", "r", "d", "s", "_", "a", "n", "d", "_", "b", "a", "d", "g", "e", "s">>,
     <<"c", "r", "e", "d", "i", "t", "_", "c", "a", "r", "d", "s">>,
     <<"d", "r", "i", "v", "e", "r", "_", "l", "i", "c", "e", "n", "s", "e">>,
     <<"p", "a", "s", "s", "p", "o", "r", "t">>,
     <<"t", "i", "c", "k", "e", "t", "s">>,
     <<"s", "t", "a", "t", "i", "o", "n", "e", "r", "y">>,
     <<"n", "o", "t", "e", "b", "o", "o", "k", "s">>,
     <<"l", "a", "p", "t", "o", "p", "s", "_", "a", "n", "d", "_", "t", "a", "b", "l", "e", "t", "s">>,
     <<"u", "s", "b", "_", "d", "r", "i", "v", "e", "s">>,
     <<"c", "a", "l", "c", "u", "l", "a", "t", "o", "r", "s">>,
     <<"s", "c", "h", "o", "o", "l", "_", "s", "u", "p", "p", "l", "i", "e", "s">>,
     <<"o", "f", "f", "i", "c", "e", "_", "s", "u", "p", "p", "l", "i", "e", "s">>,
     <<"b", "i", "c", "y", "c", "l", "e", "s">>,
     <<"h", "e", "l", "m", "e", "t", "s">>,
     <<"v", "e", "h", "i", "c", "l", "e", "_", "k", "e", "y", "s">>,
     <<"f", "o", "o", "d", "_", "c", "o", "n", "t", "a", "i", "n", "e", "r", "s">>,
     <<"b", "o", "t", "t", "l", "e", "s">>,
     <<"m", "i", "s", "c", "e", "l", "l", "a", "n", "e", "o", "u", "s">> >>

MISCELLANEOUS == <<"m", "i", "s", "c", "e", "l", "l", "a", "n", "e", "o", "u", "s">>
LabelKeyText == <<"l", "a", "b", "e", "l">>

\* A decoded JSON value: t is its Python type, s the text of a str, ks and xs
\* the keys and values of a dict (xs alone the elements of a list).
JStr(s) == [t |-> "str", s |-> s, ks |-> <<>>, xs |-> <<>>]
JNum == [t |-> "int", s |-> <<>>, ks |-> <<>>, xs |-> <<>>]
JNull == [t |-> "NoneType", s |-> <<>>, ks |-> <<>>, xs |-> <<>>]
JList(xs) == [t |-> "list", s |-> <<>>, ks |-> <<>>, xs |-> xs]
JDict(ks, xs) == [t |-> "dict", s |-> <<>>, ks |-> ks, xs |-> xs]

HasKey(d, key) == \E i \in 1..Len(d.ks) : d.ks[i] = key

\* the outcome of a Python expression: a value, or an exception raised
Value(v) == [exc |-> FALSE, v |-> v]
Raised == [exc |-> TRUE, v |-> JNull]

\* v[0]
PyIndex0(v) ==
  IF v.t = "list" THEN (IF Len(v.xs) > 0 THEN Value(v.xs[1]) ELSE Raised)
  ELSE IF v.t = "str" THEN (IF Len(v.s) > 0 THEN Value(JStr(<<v.s[1]>>)) ELSE Raised)
  ELSE Raised

\* v[key], key a str
PyGetItem(v, key) ==
  IF v.t = "dict" /\ HasKey(v, key)
  THEN Value(v.xs[CHOOSE i \in 1..Len(v.ks) : v.ks[i] = key])
  ELSE Raised

\* the value taken as it is, .lower() left out
PyLowerLeftOut(v) == IF v.t = "str" THEN Value(v) ELSE Raised

\* v.lower()
PyLower(v) == IF v.t = "str" THEN Value(JStr(Lower(v.s))) ELSE Raised

\* "label" in v
PyLabelIn(v) ==
  IF v.t = "dict" THEN [exc |-> FALSE, b |-> HasKey(v, "label")]
  ELSE IF v.t = "list" THEN [exc |-> FALSE, b |-> \E i \in 1..Len(v.xs) : v.xs[i] = JStr(LabelKeyText)]
  ELSE IF v.t = "str" THEN [exc |-> FALSE, b |-> Contains(v.s, LabelKeyText)]
  ELSE [exc |-> TRUE, b |-> FALSE]

\* What the classifier call gave: requests.post raised (sent = FALSE), or the
\* body was not JSON (json = FALSE), or the decoded body.
Response(sent, json, body) == [sent |-> sent, json |-> json, body |-> body]

auto_tag_item(resp) ==
  IF ~resp.sent \/ ~resp.json THEN MISCELLANEOUS
  ELSE LET result == resp.body IN
    IF result.t = "dict" /\ HasKey(result, "labels") THEN
      LET first == PyIndex0(PyGetItem(result, "labels").v) IN
      IF first.exc THEN MISCELLANEOUS
      ELSE LET low == PyLower(first.v) IN
           IF low.exc THEN MISCELLANEOUS ELSE low.v.s
    ELSE IF result.t = "list" THEN
      LET e == PyIndex0(result) IN
      IF e.exc THEN MISCELLANEOUS
      ELSE LET m == PyLabelIn(e.v) IN
           IF m.exc THEN MISCELLANEOUS
           ELSE IF m.b THEN
             LET g == PyGetItem(e.v, "label") IN
             IF g.exc THEN MISCELLANEOUS
             ELSE LET low == PyLower(g.v) IN
                  IF low.exc THEN MISCELLANEOUS ELSE low.v.s
           ELSE MISCELLANEOUS
    ELSE MISCELLANEOUS

(***************************************************************************)
(* The requests the service is driven with                                 *)
(***************************************************************************)
\* requests in flight at once, rows ever inserted, ticks of the database clock
NumReq == 1
MaxItems == 1
MaxClock == 1

Reqs == 1..NumReq

Stolen == <<"s", "t", "o", "l", "e", "n">>
BlueWallet == <<"B", "l", "u", "e", " ", "W", "a", "l", "l", "e", "t">>
Library == <<"L", "i", "b", "r", "a", "r", "y">>
Email == <<"a", "@", "b", ".", "c", "o", "m">>
RedScarf == <<"R", "e", "d", " ", "S", "c", "a", "r", "f">>
Gym == <<"G", "y", "m">>
Phone == <<"5", "5", "5">>
OneChar == <<"K">>
SecureUrl == <<"h", "t", "t", "p", "s", ":", "/", "/", "i", "m", "g", "/", "1">>
PicPng == <<"p", "i", "c", ".", "p", "n", "g">>
Documents == <<"D", "o", "c", "u", "m", "e", "n", "t", "s">>
Books == <<"B", "o", "o", "k", "s">>
WalletsAndPurses == <<"W", "a", "l", "l", "e", "t", "s", "_", "A", "n", "d", "_", "P", "u", "r", "s", "e", "s">>
Pizza == <<"p", "i", "z", "z", "a">>
Loading == <<"l", "o", "a", "d", "i", "n", "g">>
SearchWallet == <<"w", "a", "l", "l", "e", "t">>
SearchPercent == <<"%">>
SearchUnderscore == <<"_">>
SearchLIB == <<"L", "I", "B">>
SearchNone == <<"z", "z">>

Form(ty, name, desc, loc, contact) ==
  [item_type |-> ty, item_name |-> name, description |-> desc, location |-> loc,
   contact_info |-> contact]

NoForm == Form(None, None, None, None, None)

BlueWalletForm == Form(Lost, BlueWallet, None, Library, Email)
RedScarfForm == Form(Found, RedScarf, Gym, Gym, Phone)

\* submissions around each limit of ItemCreate
ValidationForms ==
  { BlueWalletForm,
    Form(Stolen, BlueWallet, None, Library, Email),
    Form(Lost, OneChar, None, Library, Email),
    Form(Lost, Rep("n", MaxItemName), None, Library, Email),
    Form(Lost, Rep("n", MaxItemName + 1), None, Library, Email),
    Form(Lost, BlueWallet, Rep("d", MaxDescription + 1), Library, Email),
    Form(Lost, BlueWallet, None, OneChar, Email),
    Form(Lost, BlueWallet, None, Library, None),
    Form(None, BlueWallet, None, Library, Email) }

\* submissions ItemCreate accepts, around each limit of the table's columns
ColumnLimitForms ==
  { Form(Lost, BlueWallet, None, Library, Rep("9", VarcharContactInfo)),
    Form(Lost, BlueWallet, None, Library, Rep("9", VarcharContactInfo + 1)),
    Form(Lost, BlueWallet, None, Library, Rep("9", VarcharContactInfo) \o <<" ">>),
    Form(Found, RedScarf, None, Rep("x", VarcharLocation + 1), Phone) }

NoImage == [present |-> FALSE, filename |-> <<>>]
EmptyImage == [present |-> TRUE, filename |-> <<>>]
PicImage == [present |-> TRUE, filename |-> PicPng]

\* classifier answers: the two shapes auto_tag_item reads
LabelsShape(xs) == Response(TRUE, TRUE, JDict(<<"sequence", "labels", "scores">>, <<JStr(BlueWallet), JList(xs), JList(<<JNum>>)>>))
ListShape(label) == Response(TRUE, TRUE, JList(<<JDict(<<"label", "score">>, <<label, JNum>>), JDict(<<"label", "score">>, <<JStr(Books), JNum>>)>>))

WalletResponse == ListShape(JStr(WalletsAndPurses))

GoodResponses ==
  { WalletResponse,
    LabelsShape(<<JStr(Documents), JStr(Books)>>),
    LabelsShape(<<JStr(Pizza)>>) }

\* the call itself fails: requests.post raises, or the body is not JSON
FailedCalls ==
  { Response(FALSE, FALSE, JNull),
    Response(TRUE, FALSE, JNull) }

\* JSON bodies of neither shape
BadResponses ==
  { Response(TRUE, TRUE, JNull),
    Response(TRUE, TRUE, JStr(Loading)),
    Response(TRUE, TRUE, JDict(<<"error">>, <<JStr(Loading)>>)),
    LabelsShape(<<>>),
    LabelsShape(<<JNum, JStr(Books)>>),
    Response(TRUE, TRUE, JDict(<<"labels">>, <<JStr(Books)>>)),
    Response(TRUE, TRUE, JDict(<<"labels">>, <<JNull>>)),
    Response(TRUE, TRUE, JDict(<<"labels">>, <<JDict(<<"0">>, <<JStr(Books)>>)>>)),
    Response(TRUE, TRUE, JList(<<>>)),
    Response(TRUE, TRUE, JList(<<JDict(<<"score">>, <<JNum>>)>>)),
    Response(TRUE, TRUE, JList(<<JNum>>)),
    Response(TRUE, TRUE, JList(<<JStr(LabelKeyText)>>)),
    Response(TRUE, TRUE, JList(<<JList(<<JStr(LabelKeyText)>>)>>)),
    ListShape(JNum) }

\* well-formed answers whose top label is longer than the tag column
LongLabelResponses ==
  { LabelsShape(<<JStr(Rep("T", VarcharTag))>>),
    LabelsShape(<<JStr(Rep("T", VarcharTag + 1))>>),
    ListShape(JStr(Rep("T", VarcharTag) \o <<" ">>)) }

Workloads == {"validation", "limits", "tagging", "malformed", "images", "search"}

Forms(w) ==
  IF w = "validation" THEN ValidationForms
  ELSE IF w = "limits" THEN ColumnLimitForms
  ELSE IF w = "search" THEN {BlueWalletForm, RedScarfForm}
  ELSE {BlueWalletForm}

Images(w) == IF w = "images" THEN {NoImage, EmptyImage, PicImage} ELSE {NoImage}

Responses(w) ==
  IF w = "tagging" THEN GoodResponses \cup FailedCalls
  ELSE IF w = "malformed" THEN BadResponses
  ELSE IF w = "limits" THEN {WalletResponse} \cup LongLabelResponses
  ELSE {WalletResponse}

Searches(w) ==
  IF w = "search"
  THEN {<<>>, SearchWallet, SearchLIB, SearchPercent, SearchUnderscore, SearchNone}
  ELSE {<<>>}

\* what cloudinary.uploader.upload does: raises, or returns a dict with or
\* without "secure_url"
UploadOutcomes == {"raise", "secure_url", "no_url"}

\* what the database does to a handler: answers, refuses the connection, or
\* fails at the commit
DbOutcomes == {"ok", "connect", "commit"}

(***************************************************************************)
(* State                                                                   *)
(***************************************************************************)
VARIABLES
  items,     \* the rows of table items, in insertion order, each in TableColumns order
  id_seq,    \* items_id_seq, the sequence behind id SERIAL: its last value
  now,       \* the database clock, CURRENT_TIMESTAMP
  req,       \* the requests in flight: handler position, locals, answer
  workload   \* which inputs this run is driven with

vars == <<items, id_seq, now, req, workload>>

NoResponse == Response(FALSE, FALSE, JNull)

\* A request slot.  pc is the handler's position; item's image_url and tag are
\* image_url and tag; calls, classifier, fault, seen and row_id record what
\* the handler did and met, for the properties below.
Idle ==
  [ pc |-> "idle", route |-> "none", form |-> NoForm, image |-> NoImage,
    image_url |-> None, tag |-> None, search |-> <<>>, item_id |-> 0,
    status |-> 0, body |-> <<>>,
    calls |-> <<>>, classifier |-> NoResponse, fault |-> "none", seen |-> <<>>,
    row_id |-> 0 ]

Init ==
  /\ items = <<>>
  /\ id_seq = 0
  /\ now = 0
  /\ req = [r \in Reqs |-> Idle]
  /\ workload \in Workloads

InFlightSubmits == Cardinality({r \in Reqs : req[r].route = "submit" /\ req[r].pc # "done"})

(***************************************************************************)
(* Layer 6: submit_item                                                    *)
(***************************************************************************)
\* POST /submit-item arrives: Depends(ItemCreate.as_form), then lines 252-253
SubmitItem(r, form, image) ==
  /\ req[r].pc = "idle"
  /\ id_seq + InFlightSubmits < MaxItems
  /\ LET answer == as_form(form)
         start == [Idle EXCEPT !.route = "submit", !.form = form, !.image = image]
     IN req' = [req EXCEPT ![r] =
          IF answer # OK THEN [start EXCEPT !.pc = "done", !.status = answer]
          ELSE IF image.present /\ image.filename # <<>> THEN [start EXCEPT !.pc = "upload"]
          ELSE [start EXCEPT !.pc = "classify"]]
  /\ UNCHANGED <<items, id_seq, now, workload>>

\* save_uploaded_image with the upload's exception caught and "" returned
save_uploaded_image_swallowing(file, outcome) ==
  IF file.filename # <<>> /\ outcome = "secure_url"
  THEN [exc |-> FALSE, url |-> SecureUrl]
  ELSE [exc |-> FALSE, url |-> <<>>]

\* save_uploaded_image(file): the URL it returns, or the exception it lets through
save_uploaded_image(file, outcome) ==
  IF file.filename # <<>>
  THEN IF outcome = "raise" THEN [exc |-> TRUE, url |-> <<>>]
       ELSE [exc |-> FALSE, url |-> IF outcome = "secure_url" THEN SecureUrl ELSE <<>>]
  ELSE [exc |-> FALSE, url |-> <<>>]

\* image_url = save_uploaded_image(image), item.image_url = image_url
SaveUploadedImage(r, outcome) ==
  /\ req[r].pc = "upload"
  /\ LET got == save_uploaded_image(req[r].image, outcome)
         uploads == req[r].image.filename # <<>>
         called == [req[r] EXCEPT !.calls = IF uploads THEN Append(@, "upload") ELSE @,
                                  !.fault = IF uploads /\ outcome = "raise" THEN "upload" ELSE @]
     IN req' = [req EXCEPT ![r] =
          IF got.exc
          THEN [called EXCEPT !.pc = "done", !.status = InternalServerError]
          ELSE [called EXCEPT !.pc = "classify", !.image_url = got.url]]
  /\ UNCHANGED <<items, id_seq, now, workload>>

\* tag = auto_tag_item(item.item_name, item.description or ""), item.tag = tag
AutoTag(r, resp) ==
  /\ req[r].pc = "classify"
  /\ req' = [req EXCEPT ![r] =
       [@ EXCEPT !.calls = Append(@, "classify"), !.classifier = resp,
                 !.tag = auto_tag_item(resp), !.pc = "insert"]]
  /\ UNCHANGED <<items, id_seq, now, workload>>

\* the row INSERT stores for the handler's item
NewRow(q, id, created_at) ==
  << id,
     VarcharStore(q.form.item_type, VarcharItemType),
     VarcharStore(q.form.item_name, VarcharItemName),
     q.form.description,
     VarcharStore(q.form.location, VarcharLocation),
     VarcharStore(q.form.contact_info, VarcharContactInfo),
     q.image_url,
     VarcharStore(q.tag, VarcharTag),
     created_at >>

\* whether the table takes the handler's item
RowAccepted(q) ==
  /\ NotNullOk(q.form.item_type, q.form.item_name, q.form.location, q.form.contact_info)
  /\ VarcharFits(q.form.item_type, VarcharItemType)
  /\ VarcharFits(q.form.item_name, VarcharItemName)
  /\ VarcharFits(q.form.location, VarcharLocation)
  /\ VarcharFits(q.form.contact_info, VarcharContactInfo)
  /\ VarcharFits(q.tag, VarcharTag)

\* get_connection, INSERT, commit, close, RedirectResponse
InsertItem(r, db) ==
  /\ req[r].pc = "insert"
  /\ LET called == [req[r] EXCEPT !.calls = Append(@, "insert"), !.pc = "done"]
         failed == [called EXCEPT !.status = InternalServerError]
     IN IF db = "connect"
        THEN /\ req' = [req EXCEPT ![r] = [failed EXCEPT !.fault = "database"]]
             /\ UNCHANGED <<items, id_seq>>
        ELSE IF ~RowAccepted(req[r])
        THEN /\ req' = [req EXCEPT ![r] = failed]
             /\ UNCHANGED <<items, id_seq>>
        ELSE IF db = "commit"
        THEN /\ req' = [req EXCEPT ![r] = [failed EXCEPT !.fault = "database"]]
             /\ id_seq' = id_seq + 1
             /\ UNCHANGED items
        ELSE /\ req' = [req EXCEPT ![r] =
                  [called EXCEPT !.calls = Append(@, "redirect"), !.status = SeeOther,
                                 !.row_id = id_seq + 1]]
             /\ id_seq' = id_seq + 1
             /\ items' = Append(items, NewRow(req[r], id_seq + 1, now))
  /\ UNCHANGED <<now, workload>>

(***************************************************************************)
(* Layer 5: the read routes                                                *)
(***************************************************************************)
Col(row, name) == row[CHOOSE i \in 1..Len(TableColumns) : TableColumns[i] = name]

\* WHERE item_name ILIKE %s OR location ILIKE %s, with (f"%{search}%", f"%{search}%")
SearchMatches(row, search) ==
  LET pattern == <<"%">> \o search \o <<"%">>
  IN ILike(Col(row, "item_name"), pattern) \/ ILike(Col(row, "location"), pattern)

\* the positions in items of the rows the query of view_items selects
Selected(search) ==
  IF search # <<>>
  THEN {i \in 1..Len(items) : SearchMatches(items[i], search)}
  ELSE 1..Len(items)

\* ORDER BY created_at DESC: every order of S the database may return
Orderings(S) ==
  { p \in [1..Cardinality(S) -> S] :
      /\ \A a, b \in 1..Cardinality(S) : a # b => p[a] # p[b]
      /\ \A a, b \in 1..Cardinality(S) :
           a < b => Col(items[p[a]], "created_at") >= Col(items[p[b]], "created_at") }

\* GET /view-items?search=...
ViewItems(r, search, db) ==
  /\ req[r].pc = "idle"
  /\ LET start == [Idle EXCEPT !.route = "view_items", !.search = search, !.pc = "done",
                               !.calls = <<"select">>]
     IN IF db = "connect"
        THEN req' = [req EXCEPT ![r] =
               [start EXCEPT !.status = InternalServerError, !.fault = "database"]]
        ELSE \E p \in Orderings(Selected(search)) :
               req' = [req EXCEPT ![r] =
                 [start EXCEPT !.status = OK, !.seen = items,
                               !.body = [k \in 1..Len(p) |-> DictZip(TableColumns, items[p[k]])]]]
  /\ UNCHANGED <<items, id_seq, now, workload>>

\* the column list of view_item_detail with location and contact_info exchanged
DetailColumnsExchanged ==
  <<"id", "item_type", "item_name", "description", "contact_info", "location",
    "image_path", "tag", "created_at">>

\* columns = [...] of view_item_detail
DetailColumns ==
  <<"id", "item_type", "item_name", "description", "location", "contact_info",
    "image_path", "tag", "created_at">>

\* GET /item/{item_id}
ViewItemDetail(r, item_id, db) ==
  /\ req[r].pc = "idle"
  /\ LET start == [Idle EXCEPT !.route = "view_item_detail", !.item_id = item_id,
                               !.pc = "done", !.calls = <<"select">>]
         found == {i \in 1..Len(items) : Col(items[i], "id") = item_id}
     IN req' = [req EXCEPT ![r] =
          IF db = "connect"
          THEN [start EXCEPT !.status = InternalServerError, !.fault = "database"]
          ELSE IF found = {}
          THEN [start EXCEPT !.status = NotFound, !.seen = items]
          ELSE [start EXCEPT !.status = OK, !.seen = items,
                             !.body = <<DictZip(DetailColumns, items[CHOOSE i \in found : TRUE])>>]]
  /\ UNCHANGED <<items, id_seq, now, workload>>

\* the answer is sent and the request is over
Respond(r) ==
  /\ req[r].pc = "done"
  /\ req' = [req EXCEPT ![r] = Idle]
  /\ UNCHANGED <<items, id_seq, now, workload>>

\* time passes at the database
Tick ==
  /\ now < MaxClock
  /\ now' = now + 1
  /\ UNCHANGED <<items, id_seq, req, workload>>

Next ==
  \/ \E r \in Reqs, form \in Forms(workload), image \in Images(workload) : SubmitItem(r, form, image)
  \/ \E r \in Reqs, outcome \in UploadOutcomes : SaveUploadedImage(r, outcome)
  \/ \E r \in Reqs, resp \in Responses(workload) : AutoTag(r, resp)
  \/ \E r \in Reqs, db \in DbOutcomes : InsertItem(r, db)
  \/ \E r \in Reqs, search \in Searches(workload), db \in {"ok", "connect"} : ViewItems(r, search, db)
  \/ \E r \in Reqs, item_id \in 0..(MaxItems + 1), db \in {"ok", "connect"} : ViewItemDetail(r, item_id, db)
  \/ \E r \in Reqs : Respond(r)
  \/ Tick

Spec == Init /\ [][Next]_vars

(***************************************************************************)
(* Properties                                                              *)
(***************************************************************************)
Submits == {r \in Reqs : req[r].route = "submit"}

Redirected(q) == q.status = SeeOther

\* the stored rows a redirected submission inserted
RowsOf(q) == {i \in 1..Len(items) : items[i][1] = q.row_id}

ImageSupplied(q) == q.image.present /\ q.image.filename # <<>>

Range(s) == {s[i] : i \in 1..Len(s)}

IsPrefix(s, t) == Len(s) <= Len(t) /\ SubSeq(t, 1, Len(s)) = s

\* C1: a valid submission without an image (absent, or with an empty
\* filename) never calls the upload, and its row's image_path is the empty
\* string.
C1_NoImageStoresEmptyString ==
  \A r \in Submits :
    (Redirected(req[r]) /\ ~ImageSupplied(req[r])) =>
      /\ "upload" \notin Range(req[r].calls)
      /\ \A i \in RowsOf(req[r]) : items[i][7] = <<>>

\* the classifier's answer has one of the two shapes auto_tag_item reads: an
\* object whose "labels" is a non-empty list headed by a string, or a
\* non-empty list headed by an object whose "label" is a string
LabelsShaped(b) ==
  /\ b.t = "dict"
  /\ HasKey(b, "labels")
  /\ LET v == b.xs[CHOOSE i \in 1..Len(b.ks) : b.ks[i] = "labels"]
     IN v.t = "list" /\ Len(v.xs) > 0 /\ v.xs[1].t = "str"

ListShaped(b) ==
  /\ b.t = "list"
  /\ Len(b.xs) > 0
  /\ b.xs[1].t = "dict"
  /\ HasKey(b.xs[1], "label")
  /\ b.xs[1].xs[CHOOSE i \in 1..Len(b.xs[1].ks) : b.xs[1].ks[i] = "label"].t = "str"

WellFormed(resp) == resp.sent /\ resp.json /\ (LabelsShaped(resp.body) \/ ListShaped(resp.body))

\* the first label of a well-formed answer
TopLabel(resp) ==
  IF LabelsShaped(resp.body)
  THEN resp.body.xs[CHOOSE i \in 1..Len(resp.body.ks) : resp.body.ks[i] = "labels"].xs[1].s
  ELSE resp.body.xs[1].xs[CHOOSE i \in 1..Len(resp.body.xs[1].ks) : resp.body.xs[1].ks[i] = "label"].s

Classified(q) == "classify" \in Range(q.calls)

\* C2: whenever the classifier call fails (the request raises, the body is
\* not JSON, or the answer has neither recognised shape), auto_tag_item
\* returns "miscellaneous", the submission goes on to the insert, and the tag
\* stored is "miscellaneous".
C2_FailedClassifierGivesMiscellaneous ==
  \A r \in Submits :
    (Classified(req[r]) /\ ~WellFormed(req[r].classifier)) =>
      /\ req[r].tag = MISCELLANEOUS
      /\ req[r].pc = "insert" \/ "insert" \in Range(req[r].calls)
      /\ \A i \in RowsOf(req[r]) : items[i][8] = MISCELLANEOUS

\* C3: for a well-formed classifier answer auto_tag_item returns the first
\* label lowercased, and that value is the tag stored with the item.
C3_WellFormedStoresTopLabel ==
  \A r \in Submits :
    (Classified(req[r]) /\ WellFormed(req[r].classifier)) =>
      /\ req[r].tag = Lower(TopLabel(req[r].classifier))
      /\ \A i \in RowsOf(req[r]) : items[i][8] = Lower(TopLabel(req[r].classifier))

\* the submissions the specification calls invalid
FailsValidation(f) ==
  \/ f.item_type \notin ItemTypes
  \/ f.item_name = None
  \/ Len(f.item_name) < 2
  \/ Len(f.item_name) > 100
  \/ f.location = None
  \/ Len(f.location) < 2
  \/ f.contact_info = None

\* C4: a submission whose fields fail validation is rejected with a client
\* error (4xx) before any side effect: no upload, no classifier call, no
\* insert.
C4_InvalidSubmissionIsClientError ==
  \A r \in Submits :
    FailsValidation(req[r].form) =>
      /\ req[r].pc = "done"
      /\ req[r].status \in 400..499
      /\ req[r].calls = <<>>
      /\ RowsOf(req[r]) = {}

\* the calls of a submission that runs to its end
Pipeline(q) ==
  (IF ImageSupplied(q) THEN <<"upload">> ELSE <<>>) \o <<"classify", "insert", "redirect">>

\* C5: the steps of a submission run in the order upload (only with an
\* image), classification, insert, redirect; a fault in the upload or in the
\* insert ends it as a server error at that step: after an upload fault no
\* classifier call and no row, after an insert fault no redirect.
C5_LinearPipeline ==
  \A r \in Submits :
    LET q == req[r] IN
    /\ IsPrefix(q.calls, Pipeline(q))
    /\ q.pc = "upload" => q.calls = <<>>
    /\ q.pc = "classify" => "classify" \notin Range(q.calls)
    /\ q.pc = "insert" => q.calls # <<>> /\ q.calls[Len(q.calls)] = "classify"
    /\ q.fault = "upload" =>
         /\ q.pc = "done" /\ q.status = InternalServerError
         /\ q.calls = <<"upload">>
         /\ q.tag = None
         /\ RowsOf(q) = {}
    /\ q.fault = "database" =>
         /\ q.pc = "done" /\ q.status = InternalServerError
         /\ "redirect" \notin Range(q.calls)
         /\ RowsOf(q) = {}
    /\ ("insert" \in Range(q.calls) /\ "redirect" \notin Range(q.calls)) =>
         q.status = InternalServerError /\ RowsOf(q) = {}
    /\ Redirected(q) <=> "redirect" \in Range(q.calls)
    /\ Redirected(q) => q.calls = Pipeline(q) /\ RowsOf(q) # {}

\* C5 witness: a submission with an image stopped at its upload by a fault:
\* answered 500 with the upload its only call, and nothing stored
C5_Witness ==
  \E r \in Submits :
    /\ ImageSupplied(req[r])
    /\ req[r].fault = "upload"
    /\ req[r].pc = "done"
    /\ req[r].status = InternalServerError
    /\ req[r].calls = <<"upload">>

\* C6: every stored row's tag is not null and is one of the candidate labels
\* of auto_tag_item or "miscellaneous", whatever the classifier returned.
C6_TagInCandidateLabels ==
  \A i \in 1..Len(items) :
    items[i][8] # None /\ items[i][8] \in Range(labels) \cup {MISCELLANEOUS}

\* C6 as amended: every stored row's tag is not null and fits the column; it
\* is the classifier's first label lowercased, not checked against the
\* candidate labels: "miscellaneous" when the call raised or gave no JSON, and
\* one of the candidate labels whenever the first label of a well-formed
\* answer, lowercased, is one.
C6_TagIsTopLabelOrFallback ==
  /\ \A i \in 1..Len(items) : items[i][8] # None /\ Len(items[i][8]) <= VarcharTag
  /\ \A r \in Submits : \A i \in RowsOf(req[r]) :
       LET c == req[r].classifier IN
       /\ (~c.sent \/ ~c.json) => items[i][8] = MISCELLANEOUS
       /\ (WellFormed(c) /\ Lower(TopLabel(c)) \in Range(labels)) =>
            items[i][8] = Lower(TopLabel(c)) /\ items[i][8] \in Range(labels)

\* C6 witness: a row stored with the candidate label "documents", from the
\* answer whose first label is "Documents"
C6_Witness ==
  \E r \in Submits : \E i \in RowsOf(req[r]) :
    /\ WellFormed(req[r].classifier)
    /\ TopLabel(req[r].classifier) = Documents
    /\ items[i][8] = Lower(Documents)
    /\ items[i][8] \in Range(labels)

\* the row a submission's own fields, tag and image URL make
OwnRow(q, created_at) ==
  << q.row_id, q.form.item_type, q.form.item_name, q.form.description, q.form.location,
     q.form.contact_info, q.image_url, q.tag, created_at >>

\* C7: under any interleaving, every submission that reaches its redirect
\* has created exactly one row holding its own fields, tag and image URL,
\* with an id no other row has; a stored row is never changed or removed, and
\* the read routes leave the stored items unchanged.
C7_OneOwnRowPerRedirect ==
  /\ [](\A r \in Submits :
          Redirected(req[r]) =>
            /\ Cardinality(RowsOf(req[r])) = 1
            /\ \A i \in RowsOf(req[r]) : items[i] = OwnRow(req[r], items[i][9]))
  /\ [](\A i, j \in 1..Len(items) : i # j => items[i][1] # items[j][1])
  /\ [][ /\ Len(items') >= Len(items)
         /\ \A i \in 1..Len(items) : items'[i] = items[i]
         /\ (\E r \in Reqs : req'[r].route \in {"view_items", "view_item_detail"}
                              /\ req[r].pc = "idle") => items' = items ]_vars

\* C8: view_items returns the stored items ordered by created_at descending:
\* all of them without a search, and for a non-empty search exactly those
\* whose item_name or location contains the search string, case-insensitively.
C8_ViewItemsSubstringSearch ==
  \A r \in Reqs :
    (req[r].route = "view_items" /\ req[r].fault = "none") =>
      LET q == req[r]
          want == {i \in 1..Len(q.seen) :
                     \/ q.search = <<>>
                     \/ Contains(Lower(q.seen[i][3]), Lower(q.search))
                     \/ Contains(Lower(q.seen[i][5]), Lower(q.search))}
      IN /\ q.status = OK
         /\ Len(q.body) = Cardinality(want)
         /\ {q.body[k].id : k \in 1..Len(q.body)} = {q.seen[i][1] : i \in want}
         /\ \A k \in 1..Len(q.body) : \E i \in want : q.body[k] = DictZip(TableColumns, q.seen[i])
         /\ \A a, b \in 1..Len(q.body) : a < b => q.body[a].created_at >= q.body[b].created_at

\* C9: view_item_detail answers 404 when no stored row has the id, and
\* otherwise renders exactly the stored row's fields, each from its own
\* column of the table (whenever the database answers the query).
C9_DetailMatchesRow ==
  \A r \in Reqs :
    (req[r].route = "view_item_detail" /\ req[r].fault = "none") =>
      LET q == req[r]
          found == {i \in 1..Len(q.seen) : q.seen[i][1] = q.item_id}
      IN IF found = {}
         THEN q.status = NotFound /\ q.body = <<>>
         ELSE /\ q.status = OK
              /\ Len(q.body) = 1
              /\ \E i \in found :
                   /\ DOMAIN q.body[1] = Range(TableColumns)
                   /\ q.body[1].id = q.seen[i][1]
                   /\ q.body[1].item_type = q.seen[i][2]
                   /\ q.body[1].item_name = q.seen[i][3]
                   /\ q.body[1].description = q.seen[i][4]
                   /\ q.body[1].location = q.seen[i][5]
                   /\ q.body[1].contact_info = q.seen[i][6]
                   /\ q.body[1].image_path = q.seen[i][7]
                   /\ q.body[1].tag = q.seen[i][8]
                   /\ q.body[1].created_at = q.seen[i][9]

\* C9 witness: a detail request that found its row and rendered it
C9_Witness ==
  \E r \in Reqs :
    /\ req[r].route = "view_item_detail"
    /\ req[r].status = OK
    /\ req[r].body[1].id = req[r].item_id
    /\ req[r].body[1].location = Library
    /\ req[r].body[1].contact_info = Email

\* C10: every submission that passes the ItemCreate validation, with image
\* host, classifier and database answering, ends with a stored row and the
\* 303 redirect: the columns of the table reject nothing validation accepts.
C10_ValidSubmissionIsStored ==
  \A r \in Submits :
    (req[r].pc = "done" /\ as_form(req[r].form) = OK /\ req[r].fault = "none") =>
      Redirected(req[r]) /\ RowsOf(req[r]) # {}

====
